---------------------------- MODULE Spec2Model ----------------------------
(***************************************************************************)
(* Model of widget/material/button.go of gio: the ripple ("ink")           *)
(* animation drawInk and the three compositors that call it                *)
(* (ButtonLayoutStyle.Layout, IconButtonStyle.Layout, Clickable).          *)
(*                                                                         *)
(* Time is counted in ticks of 0.1 s; time.Time{} (the zero time, for      *)
(* which IsZero() holds) is tick 0.  The values drawInk computes are kept   *)
(* as the rationals they stand for, float32 rounding left out, as integer  *)
(* numerators over fixed denominators:                                     *)
(*    t            = T / Duration                                          *)
(*    bezierBlend  = B / Den            (Den = Duration^3)                 *)
(*    size         = S * sqrt(2) / Den  (S = 2 * max(w,h) * B)             *)
(*    alpha        = 7 * B / (10 * Den)                                    *)
(***************************************************************************)
EXTENDS Integers, Sequences, FiniteSets

\* ------------------------------------------------------------- bounds
\* Latest tick at which a press is recorded.
MaxPressTime == 2
\* Largest number of presses kept in one surface's history.
MaxHistory == 2
\* ---------------------------------------------------- program constants
\* const duration = 0.4 (seconds), in ticks.
Duration == 4
\* unit.Dp(4): the corner radius of ButtonLayout.
CornerRadius == 4
\* layout.UniformInset(unit.Dp(12)).
Inset == 12
\* mulAlpha(b.Background, 150).
DisabledAlpha == 150

Den == Duration * Duration * Duration
\* The last tick of the host clock: late enough for every press to decay.
MaxNow == MaxPressTime + Duration + 1

\* Where a press may land (c.Position).
Positions == {[X |-> 0, Y |-> 1], [X |-> 1, Y |-> 0]}
\* gtx.Constraints.Min of the surface.
Sizes == {[X |-> 2, Y |-> 4], [X |-> 6, Y |-> 2]}
Styles == {"ButtonLayout", "IconButton", "Clickable"}
\* What byte(f) may yield when f does not fit a byte: Go leaves the value to
\* the implementation; the two extremes stand for all of them.
UBBytes == {0, 255}

VARIABLES
    clock,      \* the host's time, what gtx.Now() returns
    history,    \* widget.Clickable's press history, oldest first
    style,      \* which compositor lays the surface out
    gtx,        \* the layout.Context of the last frame: Now, Queue, Min
    shown,      \* button.History() as the last frame read it
    ops         \* gtx.Ops: the operation stream of the last frame

vars == <<clock, history, style, gtx, shown, ops>>

\* ------------------------------------------------------------ time.Time
IsZero(t) == t = 0
Sub(a, b) == a - b

\* widget.Press{Position, Start, End}; End is the zero time until release.
Press(p, start) == [Position |-> p, Start |-> start, End |-> 0]

\* ------------------------------------------------------------ op stream
Op(op, by, x, y, s) == [op |-> op, by |-> by, x |-> x, y |-> y, s |-> s]

Max2(a, b) == IF a > b THEN a ELSE b

\* ---------------------------------------------------------------- drawInk
\* Variant of InkAge: the age of a released press counted from its release.
InkAge_FromEnd(g, c) == Sub(g.Now, IF IsZero(c.End) THEN c.Start ELSE c.End)

\* age := now.Sub(c.Start); t := age.Seconds() / duration, as a numerator
\* over Duration.
InkAge(g, c) == Sub(g.Now, c.Start)

\* Variants of TooOld: the hold forgotten (every press past the duration is
\* dropped), the test of End inverted, and the test of End left out.
TooOld_IgnoresHold(g, c) == InkAge(g, c) > Duration

TooOld_EndInverted(g, c) ==
    /\ InkAge(g, c) > Duration
    /\ (IsZero(c.Start) \/ IsZero(c.End))

TooOld_EndUntested(g, c) ==
    /\ InkAge(g, c) > Duration
    /\ IsZero(c.Start)

\* if t > 1.0 { if c.Start.IsZero() || !c.End.IsZero() { return } ... }
TooOld(g, c) ==
    /\ InkAge(g, c) > Duration
    /\ (IsZero(c.Start) \/ ~IsZero(c.End))

\* ... t = 1.0 }
InkT(g, c) == IF InkAge(g, c) > Duration THEN Duration ELSE InkAge(g, c)

\* t2 := t; if t2 > 1.0 { t2 = 2.0 - t2 }
InkT2(t) == IF t > Duration THEN 2 * Duration - t ELSE t

\* Variant of bezierBlend: the two coefficients exchanged.
bezierBlend_Swapped(t2) == t2 * t2 * (2 * Duration - 3 * t2)

\* bezierBlend := t2 * t2 * (3.0 - 2.0*t2), as a numerator over Den.
bezierBlend(t2) == t2 * t2 * (3 * Duration - 2 * t2)

\* size := max(Min.X, Min.Y); size *= 2 * sqrt(2); size *= bezierBlend
InkSize(g, b) == 2 * Max2(g.Min.X, g.Min.Y) * b

\* byte(f) of f = num / den >= 0: truncation when it fits, else ub.
ToByte(num, den, ub) == IF num \div den <= 255 THEN num \div den ELSE ub

\* alpha := 0.7 * bezierBlend; ba := byte(alpha * 0xff)
InkBA(b, ub) == ToByte(7 * b * 255, 10 * Den, ub)
\* const col = 0.8; bc := byte(alpha * col * 0xff)
InkBC(b, ub) == ToByte(7 * b * 8 * 255, 100 * Den, ub)

\* Variants of InkOps: the deferred Pop forgotten, the InvalidateOp forgotten.
InkOps_NoPop(g, c, b, ub) ==
    << Op("push", "ink", 0, 0, 0),
       Op("color", "ink", ToByte(7 * b * 255, 10 * Den, ub),
                          ToByte(7 * b * 8 * 255, 100 * Den, ub), 7 * b),
       Op("transform", "ink", c.Position.X, c.Position.Y, InkSize(g, b) \div 2),
       Op("clip", "ink", InkSize(g, b), InkSize(g, b), InkSize(g, b) \div 2),
       Op("paint", "ink", InkSize(g, b), InkSize(g, b), 0),
       Op("invalidate", "ink", 0, 0, 0) >>

InkOps_NoInvalidate(g, c, b, ub) ==
    << Op("push", "ink", 0, 0, 0),
       Op("color", "ink", ToByte(7 * b * 255, 10 * Den, ub),
                          ToByte(7 * b * 8 * 255, 100 * Den, ub), 7 * b),
       Op("transform", "ink", c.Position.X, c.Position.Y, InkSize(g, b) \div 2),
       Op("clip", "ink", InkSize(g, b), InkSize(g, b), InkSize(g, b) \div 2),
       Op("paint", "ink", InkSize(g, b), InkSize(g, b), 0),
       Op("pop", "ink", 0, 0, 0) >>

\* The operations of one drawn ripple, Push first and the deferred Pop last.
\* The ColorOp keeps alpha's numerator 7*b (over 10*Den) in s beside the bytes.
InkOps(g, c, b, ub) ==
    << Op("push", "ink", 0, 0, 0),
       Op("color", "ink", InkBA(b, ub), InkBC(b, ub), 7 * b),
       \* Offset(c.Position).Offset(-rr, -rr), rr = size * .5 kept in s
       Op("transform", "ink", c.Position.X, c.Position.Y, InkSize(g, b) \div 2),
       Op("clip", "ink", InkSize(g, b), InkSize(g, b), InkSize(g, b) \div 2),
       Op("paint", "ink", InkSize(g, b), InkSize(g, b), 0),
       Op("invalidate", "ink", 0, 0, 0),
       Op("pop", "ink", 0, 0, 0) >>

drawInk(g, c, ub) ==
    IF TooOld(g, c) THEN <<>>
    ELSE InkOps(g, c, bezierBlend(InkT2(InkT(g, c))), ub)

\* Variant of Ripples: the loop ends at the first press that is too old.
RECURSIVE Ripples_StopAtExpired(_, _, _)
Ripples_StopAtExpired(g, hist, ub) ==
    IF hist = <<>> \/ drawInk(g, Head(hist), ub) = <<>> THEN <<>>
    ELSE drawInk(g, Head(hist), ub) \o Ripples_StopAtExpired(g, Tail(hist), ub)

\* for _, c := range b.Button.History() { drawInk(gtx, c) }
RECURSIVE Ripples(_, _, _)
Ripples(g, hist, ub) ==
    IF hist = <<>> THEN <<>>
    ELSE drawInk(g, Head(hist), ub) \o Ripples(g, Tail(hist), ub)

\* ------------------------------------------------------------ the layers
\* fill(gtx, background): a color and a paint over the constraints.
fill(g, alpha) ==
    << Op("color", "fill", alpha, 0, 0),
       Op("paint", "fill", g.Min.X, g.Min.Y, 0) >>

\* background := b.Background; if gtx.Queue == nil { mulAlpha(.., 150) }
Background(g) == IF g.Queue THEN 255 ELSE DisabledAlpha

\* The surface clip; s is the corner radius in half pixels.
ButtonClip(g) == Op("clip", "surface", g.Min.X, g.Min.Y, 2 * CornerRadius)
IconClip(g) == Op("clip", "surface", g.Min.X, g.Min.X, g.Min.X)
ClickableClip(g) == Op("clip", "surface", g.Min.X, g.Min.Y, 0)

\* button.Layout: the hit-test area of widget.Clickable.
HitArea(g) == << Op("pointer_rect", "hit", g.Min.X, g.Min.Y, 0) >>

\* The content widget w, which sets its own color and paints.
Content(g) ==
    << Op("color", "content", 255, 0, 0),
       Op("paint", "content", g.Min.X, g.Min.Y, 0) >>

\* layout.Stack: every child's operations in a scope of their own, in the
\* order the children are given.
StackChild(call) ==
    << Op("push", "stack", 0, 0, 0) >> \o call \o << Op("pop", "stack", 0, 0, 0) >>

RECURSIVE StackLayout(_)
StackLayout(children) ==
    IF children = <<>> THEN <<>>
    ELSE StackChild(Head(children)) \o StackLayout(Tail(children))

\* Variant of ButtonLayoutStyle.Layout: the hit-test child given first.
ButtonLayoutStyle_Layout_HitFirst(g, hist, ub) ==
    StackLayout(<<
        HitArea(g),
        << ButtonClip(g) >> \o fill(g, Background(g)) \o Ripples(g, hist, ub),
        << Op("transform", "content", Inset, Inset, 0) >> \o Content(g) >>)

ButtonLayoutStyle_Layout(g, hist, ub) ==
    StackLayout(<<
        << ButtonClip(g) >> \o fill(g, Background(g)) \o Ripples(g, hist, ub),
        << Op("transform", "content", Inset, Inset, 0) >> \o Content(g),
        HitArea(g) >>)

IconButtonStyle_Layout(g, hist, ub) ==
    StackLayout(<<
        << IconClip(g) >> \o fill(g, Background(g)) \o Ripples(g, hist, ub),
        << Op("transform", "content", Inset, Inset, 0) >> \o Content(g),
        << Op("pointer_ellipse", "hit", g.Min.X, g.Min.Y, 0) >> \o HitArea(g) >>)

Clickable(g, hist, ub) ==
    StackLayout(<<
        HitArea(g),
        << ClickableClip(g) >> \o Ripples(g, hist, ub),
        Content(g) >>)

Layout(st, g, hist, ub) ==
    CASE st = "ButtonLayout" -> ButtonLayoutStyle_Layout(g, hist, ub)
      [] st = "IconButton" -> IconButtonStyle_Layout(g, hist, ub)
      [] OTHER -> Clickable(g, hist, ub)

\* --------------------------------------------------- press history store
InProgress(c) == IsZero(c.End)

\* The index of the most recent in-progress entry, 0 if there is none.
LastInProgress(hist) ==
    LET open == {i \in 1..Len(hist) : InProgress(hist[i])}
    IN  IF open = {} THEN 0 ELSE CHOOSE i \in open : \A j \in open : j <= i

\* A released entry whose ripple has run its duration.
Decayed(c, now) == ~IsZero(c.End) /\ Sub(now, c.Start) > Duration

prune(hist, now) == SelectSeq(hist, LAMBDA c : ~Decayed(c, now))

\* ---------------------------------------------------------------- actions
\* The frame loop lays out a surface taller than wide; drawInk on its own
\* (SpecInk) is given every size.
Init ==
    /\ clock = 0
    /\ history = <<>>
    /\ style \in Styles
    /\ \E m \in {z \in Sizes : z.X < z.Y} :
          gtx = [Now |-> 0, Queue |-> FALSE, Min |-> m]
    /\ shown = <<>>
    /\ ops = <<>>

\* The stream of a frame is owned by that frame: once it is submitted the
\* host resets it, and the context of the frame is gone.
Reset ==
    /\ gtx' = [gtx EXCEPT !.Now = 0, !.Queue = FALSE]
    /\ shown' = <<>>
    /\ ops' = <<>>

\* The host's clock advances.
Tick ==
    /\ clock < MaxNow
    /\ clock' = clock + 1
    /\ Reset
    /\ UNCHANGED <<history, style>>

recordPress(p) ==
    /\ clock <= MaxPressTime
    /\ Len(history) < MaxHistory
    /\ \A i \in 1..Len(history) : ~InProgress(history[i])
    /\ history' = Append(history, Press(p, clock))
    /\ Reset
    /\ UNCHANGED <<clock, style>>

recordRelease ==
    /\ LET i == LastInProgress(history)
       IN  history' = IF i = 0 THEN history
                      ELSE [history EXCEPT ![i].End = clock]
    /\ Reset
    /\ UNCHANGED <<clock, style>>

\* One frame: the compositor builds the stream from the history at the
\* host's now.
Frame(q, ub) ==
    /\ gtx' = [gtx EXCEPT !.Now = clock, !.Queue = q]
    /\ shown' = history
    /\ ops' = Layout(style, gtx', history, ub)
    /\ UNCHANGED <<clock, history, style>>

\* prune(now): at most once per frame, after rendering.
Prune ==
    /\ ops # <<>>
    /\ \E i \in 1..Len(history) : Decayed(history[i], gtx.Now)
    /\ history' = prune(history, gtx.Now)
    /\ UNCHANGED <<clock, style, gtx, shown, ops>>

Next ==
    \/ Tick
    \/ \E p \in Positions : recordPress(p)
    \/ recordRelease
    \/ \E q \in BOOLEAN, ub \in UBBytes : Frame(q, ub)
    \/ Prune

Spec == Init /\ [][Next]_vars

\* For the settling of the frame loop every press lands on one point and
\* the surface is enabled: whether the loop settles depends on the times
\* alone.
LiveInit == Init

LiveFrame == \E ub \in UBBytes : Frame(TRUE, ub)

LiveNext ==
    \/ Tick
    \/ \E p \in {q \in Positions : q.X = 0} : recordPress(p)
    \/ recordRelease
    \/ LiveFrame
    \/ Prune

\* The host's frame loop: time passes, and a frame is laid out whenever one
\* is due.
LiveSpec ==
    /\ LiveInit /\ [][LiveNext]_vars
    /\ WF_vars(Tick)
    /\ WF_vars(LiveFrame)

\* ------------------------------------------------- drawInk on its own
\* Every press and every now, related or not: drawInk is a function of
\* (gtx, c) and is given whatever History() and the host's clock hold.
Presses ==
    {[Position |-> p, Start |-> s, End |-> e] :
        p \in Positions, s \in 0..(MaxPressTime + 1), e \in 0..MaxNow}

InkInit ==
    /\ clock \in 0..MaxNow
    /\ \E c \in Presses :
          /\ IsZero(c.End) \/ c.End >= c.Start
          /\ history = <<c>>
    /\ style = "Clickable"
    /\ \E m \in Sizes : gtx = [Now |-> clock, Queue |-> TRUE, Min |-> m]
    /\ shown = history
    /\ \E ub \in UBBytes : ops = drawInk(gtx, history[1], ub)

\* The same press evaluated for another frame.
InkEval(now, ub) ==
    /\ clock' = now
    /\ gtx' = [gtx EXCEPT !.Now = now]
    /\ ops' = drawInk(gtx', history[1], ub)
    /\ UNCHANGED <<history, style, shown>>

InkNext == \E now \in 0..MaxNow, ub \in UBBytes : InkEval(now, ub)

SpecInk == InkInit /\ [][InkNext]_vars


\* ------------------------------------------------------ reading a stream
\* The ripple operations of a stream, in order.
Ink(o) == SelectSeq(o, LAMBDA r : r.by = "ink")

\* Every drawn ripple is seven operations; the k-th ripple's ColorOp,
\* TransformOp and clip are these.
InkCount(o) == Len(SelectSeq(o, LAMBDA r : r.by = "ink" /\ r.op = "push"))
InkColor(o, k) == Ink(o)[7 * (k - 1) + 2]
InkTransform(o, k) == Ink(o)[7 * (k - 1) + 3]
InkClip(o, k) == Ink(o)[7 * (k - 1) + 4]

Redraw(o) == \E k \in 1..Len(o) : o[k].op = "invalidate"

\* size at full bloom, 2*sqrt(2)*max(width, height), in the unit of InkSize.
FullSize == 2 * Max2(gtx.Min.X, gtx.Min.Y) * Den
\* alpha at full bloom, 0.7, in the unit of the ColorOp's s.
FullAlpha == 7 * Den

\* size and alpha of the one ripple of a stream, -1 when nothing is drawn.
SizeOf(o) == IF InkCount(o) = 0 THEN -1 ELSE InkClip(o, 1).x
AlphaOf(o) == IF InkCount(o) = 0 THEN -1 ELSE InkColor(o, 1).s

\* The press SpecInk evaluates.
ThePress == shown[1]
Held(c) == IsZero(c.End)

\* ------------------------------------------------ what a frame should show
\* A press is visible at the frame's now while its ripple runs, and past
\* the duration for as long as it is held and its Start is a real time.
Visible(c) ==
    \/ gtx.Now - c.Start <= Duration
    \/ (Held(c) /\ ~IsZero(c.Start))

\* The ripple of shown[i] is the Rank(i)-th of the stream.
Rank(i) == Cardinality({j \in 1..i : Visible(shown[j])})

\* t^2 (3 - 2t) at t = min(age, duration) / duration, over Den.
Smooth(age) ==
    LET t == IF age > Duration THEN Duration ELSE age
    IN  t * t * (3 * Duration - 2 * t)

\* The k-th ripple of the stream is the ripple of press c at blend b / Den.
RippleIs(k, c, b) ==
    /\ k >= 1 /\ k <= InkCount(ops) /\ Len(Ink(ops)) = 7 * InkCount(ops)
    /\ InkTransform(ops, k).x = c.Position.X
    /\ InkTransform(ops, k).y = c.Position.Y
    /\ 2 * InkTransform(ops, k).s = InkClip(ops, k).x
    /\ InkClip(ops, k).x * Den = FullSize * b
    /\ InkColor(ops, k).s * Den = FullAlpha * b

\* ------------------------------------------------------------------ C1
\* C1 as stated: a press whose End is unset is never Expired: in every
\* frame (now >= start) its ripple is drawn and a redraw is requested, and
\* past the duration the ripple is at full bloom (bezierBlend = 1).
C1_HeldNeverExpires_Original ==
    \A i \in 1..Len(shown) :
        Held(shown[i]) =>
            /\ Redraw(ops)
            /\ \E k \in 1..InkCount(ops) :
                   RippleIs(k, shown[i], Smooth(gtx.Now - shown[i].Start))

\* C1 amended: a press whose End is unset and whose Start is not the zero
\* time is never Expired: in every frame its ripple is drawn and a redraw
\* is requested, and past the duration the ripple is at full bloom.
C1_HeldNeverExpires ==
    \A i \in 1..Len(shown) :
        (Held(shown[i]) /\ ~IsZero(shown[i].Start)) =>
            /\ Redraw(ops)
            /\ RippleIs(Rank(i), shown[i], Smooth(gtx.Now - shown[i].Start))
            /\ (gtx.Now - shown[i].Start > Duration =>
                    RippleIs(Rank(i), shown[i], Den))

C1_Witness ==
    \E i \in 1..Len(shown) :
        /\ Held(shown[i]) /\ ~IsZero(shown[i].Start)
        /\ gtx.Now - shown[i].Start > Duration
        /\ RippleIs(Rank(i), shown[i], Den)

\* ------------------------------------------------------------------ C2
ReleasedPast == ~Held(ThePress) /\ gtx.Now - ThePress.Start > Duration

\* C2: a released press evaluated with (now - start) / duration > 1 emits
\* no operation at all, and a released press that emitted nothing at one
\* frame emits nothing at any later frame.
C2_ReleasedExpires ==
    /\ [](ReleasedPast => ops = <<>>)
    /\ [][(~Held(ThePress) /\ ReleasedPast /\ ops = <<>> /\ gtx'.Now >= gtx.Now)
            => ops' = <<>>]_vars

C2_Witness ==
    /\ ReleasedPast
    /\ ThePress.End > ThePress.Start
    /\ gtx.Now > ThePress.End
    /\ ops = <<>>

\* ------------------------------------------------------------------ C9
\* C9: bezierBlend is 0 at t = 0 and 1 at t = 1, and between two frames of
\* the same press with start <= now <= now' <= start + duration the
\* ripple's size and alpha do not decrease.
C9_Monotone ==
    /\ [](gtx.Now = ThePress.Start => SizeOf(ops) = 0 /\ AlphaOf(ops) = 0)
    /\ [](gtx.Now = ThePress.Start + Duration =>
            SizeOf(ops) = FullSize /\ AlphaOf(ops) = FullAlpha)
    /\ [][(/\ ThePress.Start <= gtx.Now
           /\ gtx.Now <= gtx'.Now
           /\ gtx'.Now <= ThePress.Start + Duration)
            => /\ SizeOf(ops) >= 0
               /\ SizeOf(ops') >= SizeOf(ops)
               /\ AlphaOf(ops') >= AlphaOf(ops)]_vars

C9_Witness ==
    /\ ThePress.Start < gtx.Now
    /\ gtx.Now < ThePress.Start + Duration
    /\ 0 < SizeOf(ops) /\ SizeOf(ops) < FullSize

\* ----------------------------------------------------------------- C10
\* C10: t is clamped to >= 0 for every press and every now, a now before
\* the press's start included (t = 0 there, so nothing has grown yet);
\* every drawn ripple has bezierBlend in [0, 1], alpha in [0, 0.7] and a
\* size of at most 2*sqrt(2)*max(width, height).
C10_Clamped ==
    InkCount(ops) = 1 =>
        /\ 0 <= AlphaOf(ops) /\ AlphaOf(ops) <= FullAlpha
        /\ 0 <= SizeOf(ops) /\ SizeOf(ops) <= FullSize
        /\ (gtx.Now < ThePress.Start => SizeOf(ops) = 0)


Quiet == \A i \in 1..Len(history) : ~Held(history[i])

\* C4 as stated: once every press is released and none arrives, the frames
\* stop requesting redraws; and while a press is held, every frame
\* requests another.
C4_Settles_Original ==
    /\ <>[]Quiet => <>[]~Redraw(ops)
    /\ []((\E i \in 1..Len(shown) : Held(shown[i])) => Redraw(ops))

\* C4 amended: once every press is released and none arrives, the frames
\* stop requesting redraws; and while a press whose Start is not the zero
\* time is held, every frame requests another.
C4_Settles ==
    /\ <>[]Quiet => <>[]~Redraw(ops)
    /\ []((\E i \in 1..Len(shown) : Held(shown[i]) /\ ~IsZero(shown[i].Start))
            => Redraw(ops))

C4_Witness ==
    /\ clock = MaxNow
    /\ Quiet
    /\ Len(shown) >= 1
    /\ ops # <<>>
    /\ ~Redraw(ops)

\* ------------------------------------------------------------------ C5
\* A frame that shows one released press, half a duration after its release.
RoundTrip ==
    /\ ops # <<>>
    /\ Len(shown) = 1
    /\ ~Held(shown[1])
    /\ gtx.Now = shown[1].End + Duration \div 2

\* C5 as stated: after recordPress(p, t0) and recordRelease(t1), t0 <= t1,
\* the frame at t1 + duration/2 has exactly one ripple, at bezierBlend 0.5
\* (alpha 0.35, half the full size).
C5_RoundTrip_Original ==
    RoundTrip => InkCount(ops) = 1 /\ RippleIs(1, shown[1], Den \div 2)

\* C5 amended: the ripple's age runs from t0, not from t1: the frame at
\* t1 + duration/2 has exactly one ripple when t1 - t0 <= duration/2, at
\* the blend of t = (t1 - t0)/duration + 0.5, which is 0.5 (alpha 0.35,
\* half the full size) exactly when t1 = t0; when t1 - t0 > duration/2 it
\* has no ripple and requests no redraw.
C5_RoundTrip ==
    RoundTrip =>
        LET d == shown[1].End - shown[1].Start
        IN  IF 2 * d <= Duration
            THEN /\ InkCount(ops) = 1
                 /\ RippleIs(1, shown[1], Smooth(d + Duration \div 2))
                 /\ (RippleIs(1, shown[1], Den \div 2) <=> d = 0)
                 /\ (d = 0 => InkColor(ops, 1).x = 89)
            ELSE InkCount(ops) = 0 /\ ~Redraw(ops)

C5_Witness ==
    /\ RoundTrip
    /\ shown[1].End = shown[1].Start
    /\ RippleIs(1, shown[1], Den \div 2)

\* ------------------------------------------------------------------ C6
Has(A) == \E i \in 1..Len(ops) : ops[i].by \in A

\* The operations of the layers, without the scopes layout.Stack puts
\* around them.
Drawn == SelectSeq(ops, LAMBDA r : r.by # "stack")

\* The stream goes through the layers in the order of seq, never back.
InOrder(seq) ==
    LET d == Drawn
        at(r) == CHOOSE n \in 1..Len(seq) : seq[n] = r.by
    IN  /\ \A i \in 1..Len(d) : \E n \in 1..Len(seq) : seq[n] = d[i].by
        /\ \A i \in 1..(Len(d) - 1) : at(d[i]) <= at(d[i + 1])

BackToFront ==
    /\ Has({"surface"}) /\ Has({"content"}) /\ Has({"hit"})
    /\ InOrder(<<"surface", "fill", "ink", "content", "hit">>)

\* C6 as stated: every compositor emits the background layer (surface
\* clip, fill, ripples), then the content, then the hit-test layer.
C6_LayerOrder_Original == ops # <<>> => BackToFront

\* C6 amended: ButtonLayoutStyle.Layout and IconButtonStyle.Layout emit
\* the background layer (surface clip, fill, ripples), then the content,
\* then the hit-test layer; Clickable emits the hit-test layer first, then
\* the surface clip and the ripples (no fill), then the content.
C6_LayerOrder ==
    ops # <<>> =>
        IF style \in {"ButtonLayout", "IconButton"}
        THEN BackToFront /\ Has({"fill"})
        ELSE /\ Has({"surface"}) /\ Has({"content"}) /\ Has({"hit"})
             /\ InOrder(<<"hit", "surface", "ink", "content">>)

C6_Witness ==
    /\ style = "ButtonLayout"
    /\ InkCount(ops) >= 1
    /\ Has({"hit"})

\* ------------------------------------------------------------------ C7
\* The drawing state a stream builds up: the current color, the transforms
\* and the clips in force, and the states saved by Push.
NoColor == Op("none", "none", 0, 0, 0)
Blank == [color |-> NoColor, offset |-> <<>>, clip |-> <<>>]
Machine0 == [cur |-> Blank, stack |-> <<>>, under |-> FALSE]

Exec(m, r) ==
    CASE r.op = "push" -> [m EXCEPT !.stack = Append(@, m.cur)]
      [] r.op = "pop" ->
            IF m.stack = <<>> THEN [m EXCEPT !.under = TRUE]
            ELSE [m EXCEPT !.cur = m.stack[Len(m.stack)],
                           !.stack = SubSeq(@, 1, Len(@) - 1)]
      [] r.op = "color" -> [m EXCEPT !.cur.color = r]
      [] r.op = "transform" -> [m EXCEPT !.cur.offset = Append(@, r)]
      [] r.op = "clip" -> [m EXCEPT !.cur.clip = Append(@, r)]
      [] OTHER -> m

\* The machine after each operation of o in turn, begun at m.
RECURSIVE Trace(_, _)
Trace(o, m) ==
    IF o = <<>> THEN <<>>
    ELSE <<Exec(m, Head(o))>> \o Trace(Tail(o), Exec(m, Head(o)))

\* Nothing a layer in A set is in force.
FreeOf(cur, A) ==
    /\ cur.color.by \notin A
    /\ \A i \in 1..Len(cur.offset) : cur.offset[i].by \notin A
    /\ \A i \in 1..Len(cur.clip) : cur.clip[i].by \notin A

IsOp(k, op, by) == ops[k].op = op /\ ops[k].by = by

\* C7: every ripple evaluation pushes as often as it pops and leaves the
\* transform, clip and color as it found them, so what one ripple set is in
\* force neither for the next ripple nor for the content or the hit-test
\* layer; the layers do not see each other's state either.
C7_Scoped ==
    LET trace == Trace(ops, Machine0)
        After(k) == IF k = 0 THEN Machine0 ELSE trace[k]
        pushes == {k \in 1..Len(ops) : IsOp(k, "push", "ink")}
        pops == {k \in 1..Len(ops) : IsOp(k, "pop", "ink")}
    IN  /\ ~After(Len(ops)).under
        /\ After(Len(ops)).stack = <<>>
        /\ After(Len(ops)).cur = Blank
        /\ Cardinality(pushes) = Cardinality(pops)
        /\ Cardinality(pushes)
             = Cardinality({i \in 1..Len(shown) : Visible(shown[i])})
        /\ \A k \in pushes :
              /\ FreeOf(After(k - 1).cur, {"ink"})
              /\ \E m \in pops :
                    /\ m > k
                    /\ \A j \in (k + 1)..(m - 1) :
                          ops[j].by = "ink" /\ ops[j].op \notin {"push", "pop"}
                    /\ After(m) = After(k - 1)
        /\ \A k \in 1..Len(ops) :
              /\ (ops[k].by = "content" =>
                    FreeOf(After(k - 1).cur, {"ink", "surface", "fill", "hit"}))
              /\ (ops[k].by = "hit" =>
                    FreeOf(After(k - 1).cur, {"ink", "surface", "fill", "content"}))

C7_Witness ==
    /\ InkCount(ops) = 2
    /\ Has({"content"})
    /\ Len(shown) = 2

\* ------------------------------------------------------------------ C8
\* C8: the background layer holds exactly one ripple per unexpired press of
\* the history, in the history's order, each determined by its own press
\* and now alone; an expired press neither hides nor changes another's.
C8_Independent ==
    ops # <<>> =>
        /\ InkCount(ops) = Cardinality({i \in 1..Len(shown) : Visible(shown[i])})
        /\ Len(Ink(ops)) = 7 * InkCount(ops)
        /\ \A i \in 1..Len(shown) :
              Visible(shown[i]) =>
                  RippleIs(Rank(i), shown[i], Smooth(gtx.Now - shown[i].Start))

C8_Witness ==
    /\ Len(shown) = 2
    /\ ~Visible(shown[1])
    /\ Visible(shown[2])
    /\ InkCount(ops) = 1
    /\ RippleIs(1, shown[2], Smooth(gtx.Now - shown[2].Start))

=============================================================================
